---------------------------- MODULE Spec2Model ----------------------------
(***************************************************************************)
(* A model of the double precision quaternion functions of                 *)
(* includes/rtm/quatd.h.                                                   *)
(*                                                                         *)
(* A double is a pair <<n, d>>: the rational n/d in lowest terms when      *)
(* d > 0, and an IEEE-754 special value when d = 0 (<<1,0>> is +Inf,       *)
(* <<-1,0>> is -Inf, <<0,0>> is NaN).  Arithmetic on finite values is the  *)
(* exact arithmetic of the reals: the inputs are small integers and short  *)
(* fractions, on which the rounding error of a double is not modelled.     *)
(* Division by zero, the square root of a negative number and an arc       *)
(* cosine outside [-1, 1] give the special values IEEE-754 gives.  Every   *)
(* zero is the positive zero.  The inputs of every operation are finite.   *)
(*                                                                         *)
(* A float is a pair <<m, e>>: the value m * 2^e with |m| < 2^24 and m odd *)
(* or zero.                                                                *)
(*                                                                         *)
(* The quaternion type quatd is laid out as the selected backend lays it   *)
(* out: two registers xy and zw of two doubles with SSE2, four fields x,   *)
(* y, z and w otherwise.                                                   *)
(***************************************************************************)
EXTENDS Integers, Sequences, FiniteSets, TLC

VARIABLES
    backend,      \* the intrinsics the build selected: "sse2", "neon" or "scalar"
    assertsOn,    \* whether the build turns RTM_ASSERT into a check
    acosClamps,   \* whether scalar_acos clamps its argument to [-1, 1]
    test,         \* the scenario that runs
    pc,           \* how many calls of the scenario have been made
    qa, qb,       \* quaternion arguments
    va,           \* vector argument
    alpha,        \* interpolation factor
    fin,          \* single precision quaternion argument
    inbuf,        \* the four doubles the input pointer points to
    ptr,          \* the address the output pointer holds
    mem,          \* the four doubles at the output pointer
    asserted,     \* whether an assertion failed
    ret           \* the values the calls returned, in the order of the calls

vars == <<backend, assertsOn, acosClamps, test, pc, qa, qb, va, alpha, fin,
          inbuf, ptr, mem, asserted, ret>>

--------------------------------------------------------------------------
(* Bounds of the model. *)

\* Integer lanes range over -MaxLane .. MaxLane.
MaxLane == 1

\* The output pointer ranges over the byte addresses 0 .. MaxAddr.
MaxAddr == 16

\* An irrational square root is rounded to a multiple of 1/SqrtDen.
SqrtDen == 64

--------------------------------------------------------------------------
(* Doubles. *)

Abs(n) == IF n < 0 THEN -n ELSE n

Sign(n) == IF n < 0 THEN -1 ELSE IF n > 0 THEN 1 ELSE 0

RECURSIVE GCD(_, _)
GCD(m, n) == IF n = 0 THEN m ELSE GCD(n, m % n)

\* The double n/d, d >= 0, in its canonical form.
Rat(n, d) ==
    IF d = 0 THEN <<Sign(n), 0>>
    ELSE LET g == GCD(Abs(n), d) IN <<n \div g, d \div g>>

Num(n) == <<n, 1>>

Zero == Num(0)
One == Num(1)
NaN == <<0, 0>>
PInf == <<1, 0>>
NInf == <<-1, 0>>

IsNaN(a) == a = NaN
IsFinite(a) == a[2] > 0

\* a * b.  Inf * 0 and NaN * b come out as 0/0.
Mul(a, b) ==
    IF a[2] = 1 /\ b[2] = 1 THEN <<a[1] * b[1], 1>>
    ELSE Rat(a[1] * b[1], a[2] * b[2])

Neg(a) == <<-a[1], a[2]>>

\* a + b.  Inf + (-Inf) and NaN + b are NaN.
Add(a, b) ==
    IF a[2] = 1 /\ b[2] = 1 THEN <<a[1] + b[1], 1>>
    ELSE IF IsFinite(a) /\ IsFinite(b)
    THEN LET g == GCD(a[2], b[2])
         IN Rat(a[1] * (b[2] \div g) + b[1] * (a[2] \div g), (a[2] \div g) * b[2])
    ELSE IF IsNaN(a) \/ IsNaN(b) THEN NaN
    ELSE IF IsFinite(a) THEN b
    ELSE IF IsFinite(b) THEN a
    ELSE IF a = b THEN a ELSE NaN

Sub(a, b) == Add(a, Neg(b))

\* 1 / a.  1 / 0 is +Inf: the zero is positive.
Recip(a) ==
    IF IsNaN(a) THEN NaN
    ELSE IF a[1] > 0 THEN <<a[2], a[1]>>
    ELSE IF a[1] < 0 THEN <<-a[2], -a[1]>>
    ELSE PInf

\* a / b.  0 / 0 is NaN, x / 0 is an infinity of the sign of x.
Div(a, b) == Mul(a, Recip(b))

\* a < b for positive integers a/b and c/d compared as fractions, without
\* forming a product: by the integer parts, then by the inverted remainders.
RECURSIVE FracLess(_, _, _, _)
FracLess(a, b, c, d) ==
    LET q1 == a \div b
        q2 == c \div d
        r1 == a % b
        r2 == c % d
    IN IF q1 # q2 THEN q1 < q2
       ELSE IF r2 = 0 THEN FALSE
       ELSE IF r1 = 0 THEN TRUE
       ELSE FracLess(d, r2, b, r1)

\* a < b.  False when either is NaN.
Less(a, b) ==
    IF IsNaN(a) \/ IsNaN(b) THEN FALSE
    ELSE IF ~IsFinite(a) \/ ~IsFinite(b)
    THEN (a = NInf /\ b # NInf) \/ (b = PInf /\ a # PInf)
    ELSE IF a = b THEN FALSE
    ELSE IF Sign(a[1]) # Sign(b[1]) THEN Sign(a[1]) < Sign(b[1])
    ELSE IF a[1] = 0 THEN FALSE
    ELSE IF a[1] > 0 THEN FracLess(a[1], a[2], b[1], b[2])
    ELSE FracLess(-b[1], b[2], -a[1], a[2])

\* a >= b.  False when either is NaN.
GreaterEq(a, b) == ~IsNaN(a) /\ ~IsNaN(b) /\ ~Less(a, b)

--------------------------------------------------------------------------
(* The scalar kernel (rtm/scalard.h). *)

\* The largest k with k * k <= n.
ISqrt(n) == CHOOSE k \in 0..n : k * k <= n /\ (k + 1) * (k + 1) > n

IsSquare(n) == ISqrt(n) * ISqrt(n) = n

\* The multiple of 1/SqrtDen nearest to the square root of n/d.
RoundedSqrt(n, d) ==
    LET s == SqrtDen * SqrtDen * n
        k == CHOOSE k \in 0..(SqrtDen * (n \div d + 1)) :
                 k * k * d <= s /\ (k + 1) * (k + 1) * d > s
    IN IF (2 * k + 1) * (2 * k + 1) * d <= 4 * s
       THEN Rat(k + 1, SqrtDen) ELSE Rat(k, SqrtDen)

\* sqrt(a): exact when a is the square of a fraction, rounded otherwise;
\* NaN for a negative a.
scalar_sqrt(a) ==
    IF IsNaN(a) \/ a = NInf THEN NaN
    ELSE IF a = PInf THEN PInf
    ELSE IF a[1] < 0 THEN NaN
    ELSE IF IsSquare(a[1]) /\ IsSquare(a[2]) THEN <<ISqrt(a[1]), ISqrt(a[2])>>
    ELSE RoundedSqrt(a[1], a[2])

scalar_abs(a) == <<Abs(a[1]), a[2]>>

\* std::max(a, b): b when a < b, a otherwise.
scalar_max(a, b) == IF Less(a, b) THEN b ELSE a

\* pi, as a fraction.
Pi == <<355, 113>>

\* The cosines of 0, pi/6, ..., pi.
CosTable ==
    <<One, <<433, 500>>, <<1, 2>>, Zero, <<-1, 2>>, <<-433, 500>>, Num(-1)>>

\* acos(a) for a in [-1, 1]: the multiple of pi/6 whose cosine is nearest to a.
AcosInDomain(a) ==
    LET dist(k) == scalar_abs(Sub(CosTable[k], a))
        best == CHOOSE k \in 1..Len(CosTable) :
                    \A j \in 1..Len(CosTable) :
                        Less(dist(k), dist(j)) \/ (dist(k) = dist(j) /\ k <= j)
    IN Mul(Rat(best - 1, Len(CosTable) - 1), Pi)

\* acos(a).  Outside [-1, 1] the build either clamps the argument or returns
\* the NaN of the platform.
scalar_acos(a) ==
    IF IsNaN(a) THEN NaN
    ELSE IF Less(One, a) THEN (IF acosClamps THEN AcosInDomain(One) ELSE NaN)
    ELSE IF Less(a, Num(-1)) THEN (IF acosClamps THEN AcosInDomain(Num(-1)) ELSE NaN)
    ELSE AcosInDomain(a)

--------------------------------------------------------------------------
(* Floats and the conversions between the precisions. *)

\* The bits of a float's significand.
FloatMantBits == 24

RECURSIVE Pow2(_)
Pow2(k) == IF k = 0 THEN 1 ELSE 2 * Pow2(k - 1)

\* The least significand of a normal float, 2^23.
FloatMantMin == Pow2(FloatMantBits - 1)

\* <<m, e>> with the factors of two moved from m into e.
RECURSIVE FloatCanon(_, _)
FloatCanon(m, e) ==
    IF m = 0 THEN <<0, 0>>
    ELSE IF m % 2 = 0 THEN FloatCanon(m \div 2, e + 1)
    ELSE <<m, e>>

\* The significand of r/q + i scaled into [2^23, 2^24), one bit a step, then
\* rounded to nearest, ties to even.  i is the integer part so far, r the
\* remainder (r < q), e the exponent of i's last bit.
RECURSIVE FloatRound(_, _, _, _)
FloatRound(i, r, q, e) ==
    IF i < FloatMantMin
    THEN FloatRound(2 * i + (IF 2 * r >= q THEN 1 ELSE 0), (2 * r) % q, q, e - 1)
    ELSE IF 2 * r > q \/ (2 * r = q /\ i % 2 = 1)
    THEN FloatCanon(i + 1, e)
    ELSE FloatCanon(i, e)

\* float(a) for a finite double a below 2^23 in magnitude.
DoubleToFloat(a) ==
    IF a[1] = 0 THEN <<0, 0>>
    ELSE LET f == FloatRound(Abs(a[1]) \div a[2], Abs(a[1]) % a[2], a[2], 0)
         IN <<Sign(a[1]) * f[1], f[2]>>

\* double(f): every float is a double.
FloatToDouble(f) ==
    IF f[2] >= 0 THEN Num(f[1] * Pow2(f[2])) ELSE Rat(f[1], Pow2(-f[2]))

--------------------------------------------------------------------------
(* The intrinsics quatd.h uses.  A __m128d is <<e0, e1>> and a __m128 or a *)
(* float32x4_t is <<e0, e1, e2, e3>>, e0 the lowest element.               *)

_mm_set_pd(e1, e0) == <<e0, e1>>

_mm_cvtsd_f64(a) == a[1]

\* The low element is a's element imm[0], the high one b's element imm[1].
_mm_shuffle_pd(a, b, imm) == <<a[(imm % 2) + 1], b[((imm \div 2) % 2) + 1]>>

_MM_SHUFFLE(fp3, fp2, fp1, fp0) == fp3 * 64 + fp2 * 16 + fp1 * 4 + fp0

\* Elements 0 and 1 come from a, elements 2 and 3 from b, by two bits of imm each.
_mm_shuffle_ps(a, b, imm) ==
    <<a[(imm % 4) + 1], a[((imm \div 4) % 4) + 1],
      b[((imm \div 16) % 4) + 1], b[((imm \div 64) % 4) + 1]>>

\* The two low floats, as doubles.
_mm_cvtps_pd(a) == <<FloatToDouble(a[1]), FloatToDouble(a[2])>>

vgetq_lane_f32(v, lane) == v[lane + 1]

--------------------------------------------------------------------------
(* The vector type (rtm/vector4d.h, rtm/vector4f.h): laid out as quatd is. *)

vector_set(x, y, z, w) ==
    IF backend = "sse2"
    THEN [xy |-> _mm_set_pd(y, x), zw |-> _mm_set_pd(w, z)]
    ELSE [x |-> x, y |-> y, z |-> z, w |-> w]

\* vector_set(x, y, z): w is 0.
vector_set3(x, y, z) == vector_set(x, y, z, Zero)

\* vector_set(xyzw): the value in every lane.
vector_set1(xyzw) == vector_set(xyzw, xyzw, xyzw, xyzw)

vector_get_x(input) == IF backend = "sse2" THEN _mm_cvtsd_f64(input.xy) ELSE input.x

vector_get_y(input) ==
    IF backend = "sse2" THEN _mm_cvtsd_f64(_mm_shuffle_pd(input.xy, input.xy, 1))
    ELSE input.y

vector_get_z(input) == IF backend = "sse2" THEN _mm_cvtsd_f64(input.zw) ELSE input.z

vector_get_w(input) ==
    IF backend = "sse2" THEN _mm_cvtsd_f64(_mm_shuffle_pd(input.zw, input.zw, 1))
    ELSE input.w

\* The lanes of a vector or of a quaternion, x first.
Lanes(input) ==
    <<vector_get_x(input), vector_get_y(input), vector_get_z(input), vector_get_w(input)>>

vector_add(lhs, rhs) ==
    vector_set(Add(vector_get_x(lhs), vector_get_x(rhs)), Add(vector_get_y(lhs), vector_get_y(rhs)),
               Add(vector_get_z(lhs), vector_get_z(rhs)), Add(vector_get_w(lhs), vector_get_w(rhs)))

vector_sub(lhs, rhs) ==
    vector_set(Sub(vector_get_x(lhs), vector_get_x(rhs)), Sub(vector_get_y(lhs), vector_get_y(rhs)),
               Sub(vector_get_z(lhs), vector_get_z(rhs)), Sub(vector_get_w(lhs), vector_get_w(rhs)))

\* vector_mul(lhs, rhs) with a scalar rhs.
vector_mul(lhs, rhs) ==
    vector_set(Mul(vector_get_x(lhs), rhs), Mul(vector_get_y(lhs), rhs),
               Mul(vector_get_z(lhs), rhs), Mul(vector_get_w(lhs), rhs))

vector_div(lhs, rhs) ==
    vector_set(Div(vector_get_x(lhs), vector_get_x(rhs)), Div(vector_get_y(lhs), vector_get_y(rhs)),
               Div(vector_get_z(lhs), vector_get_z(rhs)), Div(vector_get_w(lhs), vector_get_w(rhs)))

\* The dot product over the four lanes.
vector_dot(lhs, rhs) ==
    Add(Add(Add(Mul(vector_get_x(lhs), vector_get_x(rhs)), Mul(vector_get_y(lhs), vector_get_y(rhs))),
            Mul(vector_get_z(lhs), vector_get_z(rhs))),
        Mul(vector_get_w(lhs), vector_get_w(rhs)))

\* The quaternion's registers or fields, as a vector.
quat_to_vector(input) ==
    IF backend = "sse2" THEN [xy |-> input.xy, zw |-> input.zw]
    ELSE [x |-> input.x, y |-> input.y, z |-> input.z, w |-> input.w]

\* vector_cast of a vector4d: every lane converted to float.  A vector4f is
\* one register of four floats with SSE2 or NEON, four fields otherwise.
vector_cast(input) ==
    LET x == DoubleToFloat(vector_get_x(input))
        y == DoubleToFloat(vector_get_y(input))
        z == DoubleToFloat(vector_get_z(input))
        w == DoubleToFloat(vector_get_w(input))
    IN IF backend \in {"sse2", "neon"} THEN <<x, y, z, w>>
       ELSE [x |-> x, y |-> y, z |-> z, w |-> w]

\* vector_get_x .. vector_get_w of a vector4f, x first.
LanesF(input) ==
    IF backend \in {"sse2", "neon"} THEN <<input[1], input[2], input[3], input[4]>>
    ELSE <<input.x, input.y, input.z, input.w>>

\* A quatf or vector4f of the four floats.
SetF(x, y, z, w) ==
    IF backend \in {"sse2", "neon"} THEN <<x, y, z, w>>
    ELSE [x |-> x, y |-> y, z |-> z, w |-> w]

\* scalar_near_equal(lhs, rhs, threshold) of floats: abs(lhs - rhs) < threshold.
\* The threshold is given by its value.
scalar_near_equal(lhs, rhs, threshold) ==
    Less(scalar_abs(Sub(FloatToDouble(lhs), FloatToDouble(rhs))), threshold)

--------------------------------------------------------------------------
(* Setters, getters, and casts (quatd.h). *)

quat_set(x, y, z, w) ==
    IF backend = "sse2"
    THEN [xy |-> _mm_set_pd(y, x), zw |-> _mm_set_pd(w, z)]
    ELSE [x |-> x, y |-> y, z |-> z, w |-> w]

\* input is the four doubles at the pointer.
quat_unaligned_load(input) == quat_set(input[1], input[2], input[3], input[4])

quat_identity_64 == quat_set(Zero, Zero, Zero, One)

vector_to_quat(input) ==
    IF backend = "sse2" THEN [xy |-> input.xy, zw |-> input.zw]
    ELSE [x |-> input.x, y |-> input.y, z |-> input.z, w |-> input.w]

\* quat_cast with the shuffle that keeps the low floats: zw gets x and y.
quat_cast_low_shuffle(input) ==
    IF backend = "sse2"
    THEN [xy |-> _mm_cvtps_pd(input),
          zw |-> _mm_cvtps_pd(_mm_shuffle_ps(input, input, _MM_SHUFFLE(3, 2, 1, 0)))]
    ELSE IF backend = "neon"
    THEN [x |-> FloatToDouble(vgetq_lane_f32(input, 0)), y |-> FloatToDouble(vgetq_lane_f32(input, 1)),
          z |-> FloatToDouble(vgetq_lane_f32(input, 2)), w |-> FloatToDouble(vgetq_lane_f32(input, 3))]
    ELSE [x |-> FloatToDouble(input.x), y |-> FloatToDouble(input.y),
          z |-> FloatToDouble(input.z), w |-> FloatToDouble(input.w)]

quat_cast(input) ==
    IF backend = "sse2"
    THEN [xy |-> _mm_cvtps_pd(input),
          zw |-> _mm_cvtps_pd(_mm_shuffle_ps(input, input, _MM_SHUFFLE(3, 2, 3, 2)))]
    ELSE IF backend = "neon"
    THEN [x |-> FloatToDouble(vgetq_lane_f32(input, 0)), y |-> FloatToDouble(vgetq_lane_f32(input, 1)),
          z |-> FloatToDouble(vgetq_lane_f32(input, 2)), w |-> FloatToDouble(vgetq_lane_f32(input, 3))]
    ELSE [x |-> FloatToDouble(input.x), y |-> FloatToDouble(input.y),
          z |-> FloatToDouble(input.z), w |-> FloatToDouble(input.w)]

quat_get_x(input) == IF backend = "sse2" THEN _mm_cvtsd_f64(input.xy) ELSE input.x

\* quat_get_y without the shuffle: the low element of xy, which is x.
quat_get_y_low(input) ==
    IF backend = "sse2" THEN _mm_cvtsd_f64(_mm_shuffle_pd(input.xy, input.xy, 0))
    ELSE input.y

quat_get_y(input) ==
    IF backend = "sse2" THEN _mm_cvtsd_f64(_mm_shuffle_pd(input.xy, input.xy, 1))
    ELSE input.y

quat_get_z(input) == IF backend = "sse2" THEN _mm_cvtsd_f64(input.zw) ELSE input.z

quat_get_w(input) ==
    IF backend = "sse2" THEN _mm_cvtsd_f64(_mm_shuffle_pd(input.zw, input.zw, 1))
    ELSE input.w

\* The alignment of a double, in bytes.
AlignofDouble == 8

\* rtm_impl::is_aligned of a double*: the address is a multiple of alignof(double).
is_aligned(address) == address % AlignofDouble = 0

\* The outcome of quat_unaligned_write: whether RTM_ASSERT failed, and the
\* four doubles at output after the call (old: the doubles there before).
\* A failed assertion ends the program before the first store.
quat_unaligned_write(input, output, old) ==
    IF assertsOn /\ ~is_aligned(output)
    THEN [asserted |-> TRUE, mem |-> old]
    ELSE [asserted |-> FALSE,
          mem |-> [[[[old EXCEPT ![1] = quat_get_x(input)]
                          EXCEPT ![2] = quat_get_y(input)]
                          EXCEPT ![3] = quat_get_z(input)]
                          EXCEPT ![4] = quat_get_w(input)]]

--------------------------------------------------------------------------
(* Arithmetic (quatd.h). *)

\* quat_conjugate that negates w as well.
quat_conjugate_neg_w(input) ==
    quat_set(Neg(quat_get_x(input)), Neg(quat_get_y(input)), Neg(quat_get_z(input)), Neg(quat_get_w(input)))

quat_conjugate(input) ==
    quat_set(Neg(quat_get_x(input)), Neg(quat_get_y(input)), Neg(quat_get_z(input)), quat_get_w(input))

\* quat_mul with the sign of rhs_x * lhs_w in x flipped.
quat_mul_sign(lhs, rhs) ==
    LET lhs_x == quat_get_x(lhs)
        lhs_y == quat_get_y(lhs)
        lhs_z == quat_get_z(lhs)
        lhs_w == quat_get_w(lhs)
        rhs_x == quat_get_x(rhs)
        rhs_y == quat_get_y(rhs)
        rhs_z == quat_get_z(rhs)
        rhs_w == quat_get_w(rhs)
        x == Sub(Add(Sub(Mul(rhs_w, lhs_x), Mul(rhs_x, lhs_w)), Mul(rhs_y, lhs_z)), Mul(rhs_z, lhs_y))
        y == Add(Add(Sub(Mul(rhs_w, lhs_y), Mul(rhs_x, lhs_z)), Mul(rhs_y, lhs_w)), Mul(rhs_z, lhs_x))
        z == Add(Sub(Add(Mul(rhs_w, lhs_z), Mul(rhs_x, lhs_y)), Mul(rhs_y, lhs_x)), Mul(rhs_z, lhs_w))
        w == Sub(Sub(Sub(Mul(rhs_w, lhs_w), Mul(rhs_x, lhs_x)), Mul(rhs_y, lhs_y)), Mul(rhs_z, lhs_z))
    IN quat_set(x, y, z, w)

\* Multiplication order is as follow: local_to_world = quat_mul(local_to_object, object_to_world)
quat_mul(lhs, rhs) ==
    LET lhs_x == quat_get_x(lhs)
        lhs_y == quat_get_y(lhs)
        lhs_z == quat_get_z(lhs)
        lhs_w == quat_get_w(lhs)
        rhs_x == quat_get_x(rhs)
        rhs_y == quat_get_y(rhs)
        rhs_z == quat_get_z(rhs)
        rhs_w == quat_get_w(rhs)
        x == Sub(Add(Add(Mul(rhs_w, lhs_x), Mul(rhs_x, lhs_w)), Mul(rhs_y, lhs_z)), Mul(rhs_z, lhs_y))
        y == Add(Add(Sub(Mul(rhs_w, lhs_y), Mul(rhs_x, lhs_z)), Mul(rhs_y, lhs_w)), Mul(rhs_z, lhs_x))
        z == Add(Sub(Add(Mul(rhs_w, lhs_z), Mul(rhs_x, lhs_y)), Mul(rhs_y, lhs_x)), Mul(rhs_z, lhs_w))
        w == Sub(Sub(Sub(Mul(rhs_w, lhs_w), Mul(rhs_x, lhs_x)), Mul(rhs_y, lhs_y)), Mul(rhs_z, lhs_z))
    IN quat_set(x, y, z, w)

\* quat_rotate with the product taken in the other order:
\* rotation * vector_quat * conjugate(rotation).
quat_rotate_swapped(rotation, vector) ==
    LET vector_quat == quat_set(vector_get_x(vector), vector_get_y(vector), vector_get_z(vector), Zero)
        inv_rotation == quat_conjugate(rotation)
    IN quat_to_vector(quat_mul(quat_mul(rotation, vector_quat), inv_rotation))

quat_rotate(rotation, vector) ==
    LET vector_quat == quat_set(vector_get_x(vector), vector_get_y(vector), vector_get_z(vector), Zero)
        inv_rotation == quat_conjugate(rotation)
    IN quat_to_vector(quat_mul(quat_mul(inv_rotation, vector_quat), rotation))

quat_length_squared(input) ==
    Add(Add(Add(Mul(quat_get_x(input), quat_get_x(input)), Mul(quat_get_y(input), quat_get_y(input))),
            Mul(quat_get_z(input), quat_get_z(input))),
        Mul(quat_get_w(input), quat_get_w(input)))

quat_length(input) == scalar_sqrt(quat_length_squared(input))

quat_normalize(input) ==
    LET length == quat_length(input)
        input_vector == quat_to_vector(input)
    IN vector_to_quat(vector_div(input_vector, vector_set1(length)))

\* quat_lerp without the bias: end is never negated.
quat_lerp_unbiased(start, end, a) ==
    LET start_vector == quat_to_vector(start)
        end_vector == quat_to_vector(end)
        bias == One
        value == vector_add(start_vector,
                            vector_mul(vector_sub(vector_mul(end_vector, bias), start_vector), a))
    IN quat_normalize(vector_to_quat(value))

quat_lerp(start, end, a) ==
    LET start_vector == quat_to_vector(start)
        end_vector == quat_to_vector(end)
        dot == vector_dot(start_vector, end_vector)
        bias == IF GreaterEq(dot, Zero) THEN One ELSE Num(-1)
        value == vector_add(start_vector,
                            vector_mul(vector_sub(vector_mul(end_vector, bias), start_vector), a))
    IN quat_normalize(vector_to_quat(value))

quat_neg(input) == vector_to_quat(vector_mul(quat_to_vector(input), Num(-1)))

\* quat_ensure_positive_w that negates unless w > 0.
quat_ensure_positive_w_strict(input) ==
    IF Less(Zero, quat_get_w(input)) THEN input ELSE quat_neg(input)

quat_ensure_positive_w(input) ==
    IF GreaterEq(quat_get_w(input), Zero) THEN input ELSE quat_neg(input)

quat_from_positive_w(input) ==
    LET w_squared == Sub(Sub(Sub(One, Mul(vector_get_x(input), vector_get_x(input))),
                             Mul(vector_get_y(input), vector_get_y(input))),
                         Mul(vector_get_z(input), vector_get_z(input)))
        w == scalar_sqrt(scalar_abs(w_squared))
    IN quat_set(vector_get_x(input), vector_get_y(input), vector_get_z(input), w)

--------------------------------------------------------------------------
(* Conversion to axis and angle (quatd.h). *)

\* epsilon is 10^-EpsilonExp.
EpsilonExp == 8

\* a >= epsilon * epsilon, for a finite a: a is positive and
\* a * 10^(2 * EpsilonExp) >= 1, one factor of ten a step.
RECURSIVE GeTenthPower(_, _, _)
GeTenthPower(n, d, k) ==
    IF n >= d THEN TRUE
    ELSE IF k = 0 THEN FALSE
    ELSE GeTenthPower(IF n * 10 >= d THEN d ELSE n * 10, d, k - 1)

GeEpsilonSquared(a) == IsFinite(a) /\ a[1] > 0 /\ GeTenthPower(a[1], a[2], 2 * EpsilonExp)

\* The axis and the angle quat_to_axis_angle stores in out_axis and out_angle.
quat_to_axis_angle(input) ==
    LET out_angle == Mul(scalar_acos(quat_get_w(input)), Num(2))
        scale_sq == scalar_max(Sub(One, Mul(quat_get_w(input), quat_get_w(input))), Zero)
        out_axis == IF GeEpsilonSquared(scale_sq)
                    THEN vector_div(vector_set3(quat_get_x(input), quat_get_y(input), quat_get_z(input)),
                                    vector_set1(scalar_sqrt(scale_sq)))
                    ELSE vector_set3(One, Zero, Zero)
    IN [out_axis |-> out_axis, out_angle |-> out_angle]

\* quat_get_axis without the epsilon guard: it always divides.
quat_get_axis_unguarded(input) ==
    LET scale_sq == scalar_max(Sub(One, Mul(quat_get_w(input), quat_get_w(input))), Zero)
    IN vector_div(vector_set3(quat_get_x(input), quat_get_y(input), quat_get_z(input)),
                  vector_set1(scalar_sqrt(scale_sq)))

quat_get_axis(input) ==
    LET scale_sq == scalar_max(Sub(One, Mul(quat_get_w(input), quat_get_w(input))), Zero)
    IN IF GeEpsilonSquared(scale_sq)
       THEN vector_div(vector_set3(quat_get_x(input), quat_get_y(input), quat_get_z(input)),
                       vector_set1(scalar_sqrt(scale_sq)))
       ELSE vector_set3(One, Zero, Zero)

quat_get_angle(input) == Mul(scalar_acos(quat_get_w(input)), Num(2))

--------------------------------------------------------------------------
(* The arguments the scenarios draw. *)

Backends == {"sse2", "neon", "scalar"}

IntLanes == {Num(n) : n \in -MaxLane..MaxLane}

\* The multiples of 1/2 up to MaxLane + 1/2 in magnitude.
HalfLanes == {Rat(n, 2) : n \in (-2 * MaxLane - 1)..(2 * MaxLane + 1)}

Tuples4(S) == [1..4 -> S]

\* The sixteen unit quaternions (+-1/2, +-1/2, +-1/2, +-1/2).
HalfUnits == Tuples4({Rat(1, 2), Rat(-1, 2)})

\* The eight unit quaternions with one lane +-1.
AxisUnits == {t \in Tuples4({Num(-1), Zero, One}) : Cardinality({i \in 1..4 : t[i] # Zero}) = 1}

QuatOf(t) == quat_set(t[1], t[2], t[3], t[4])
VectorOf(t) == vector_set(t[1], t[2], t[3], t[4])

\* First arguments: every quaternion of integer lanes, and the half units.
QuatArgs == {QuatOf(t) : t \in Tuples4(IntLanes) \cup HalfUnits}

\* Second arguments: the units of one lane, the half units of positive w, and
\* three quaternions of other lengths.
SecondArgs ==
    {QuatOf(t) : t \in AxisUnits \cup {u \in HalfUnits : u[4] = Rat(1, 2)}
                       \cup {<<One, One, Zero, Zero>>, <<Zero, One, Num(-1), Num(2)>>,
                             <<Rat(1, 2), Zero, Rat(-3, 2), One>>}}

\* Vectors to rotate: two axes and a vector of four different lanes.
VectorArgs ==
    {VectorOf(t) : t \in {<<One, Zero, Zero, Zero>>, <<Zero, Zero, One, Zero>>,
                          <<One, Num(-2), Num(3), Num(5)>>}}

Alphas == {Num(-1), Zero, Rat(1, 4), Rat(1, 2), One, Num(2)}

\* Lanes w of the axis scenario: the halves, and +-3/5 and +-4/5.
AxisW == HalfLanes \cup {Rat(3, 5), Rat(-3, 5), Rat(4, 5), Rat(-4, 5)}

\* Lanes x, y, z of the axis scenario.
AxisXYZ == IntLanes \cup {Rat(1, 2), Rat(3, 5), Rat(4, 5)}

\* The vector of test_vector4_64.cpp.
TestSrc == <<Rat(-265, 100), Rat(2996113, 1000000), Rat(68123521, 100000000), Rat(-59182, 10000)>>

\* Doubles to cast to float.
CastLanes == IntLanes \cup {Rat(1, 3), Rat(-265, 100)}

ZeroMem == <<Zero, Zero, Zero, Zero>>

\* The values of the variables a scenario does not use.
Idle(used) ==
    /\ "assertsOn" \in used \/ assertsOn = FALSE
    /\ "acosClamps" \in used \/ acosClamps = FALSE
    /\ "qa" \in used \/ qa = quat_identity_64
    /\ "qb" \in used \/ qb = quat_identity_64
    /\ "va" \in used \/ va = VectorOf(ZeroMem)
    /\ "alpha" \in used \/ alpha = Zero
    /\ "fin" \in used \/ fin = SetF(<<0, 0>>, <<0, 0>>, <<0, 0>>, <<0, 0>>)
    /\ "inbuf" \in used \/ inbuf = ZeroMem
    /\ "ptr" \in used \/ ptr = 0
    /\ pc = 0
    /\ mem = ZeroMem
    /\ asserted = FALSE
    /\ ret = <<>>

\* A call that returns value: the scenario's call number step.
Call(name, step, value) ==
    /\ test = name
    /\ pc = step - 1
    /\ ~asserted
    /\ pc' = step
    /\ ret' = Append(ret, value)
    /\ UNCHANGED <<backend, assertsOn, acosClamps, test, qa, qb, va, alpha, fin, inbuf, ptr>>

--------------------------------------------------------------------------
(* Scenario "memory": a quaternion is loaded from four doubles, read lane  *)
(* by lane, made from a vector, and written to the output pointer.         *)

InitMemory ==
    /\ backend \in Backends
    /\ assertsOn \in BOOLEAN
    /\ test = "memory"
    /\ inbuf \in Tuples4(IntLanes)
    /\ ptr \in {a \in 0..MaxAddr : a % 4 = 0}
    /\ Idle({"assertsOn", "inbuf", "ptr"})

Load == Call("memory", 1, quat_unaligned_load(inbuf)) /\ UNCHANGED <<mem, asserted>>

GetX == Call("memory", 2, quat_get_x(ret[1])) /\ UNCHANGED <<mem, asserted>>

GetY == Call("memory", 3, quat_get_y(ret[1])) /\ UNCHANGED <<mem, asserted>>

GetZ == Call("memory", 4, quat_get_z(ret[1])) /\ UNCHANGED <<mem, asserted>>

GetW == Call("memory", 5, quat_get_w(ret[1])) /\ UNCHANGED <<mem, asserted>>

VectorToQuat ==
    /\ Call("memory", 6, vector_to_quat(VectorOf(inbuf)))
    /\ UNCHANGED <<mem, asserted>>

UnalignedWrite ==
    /\ test = "memory"
    /\ pc = 6
    /\ pc' = 7
    /\ LET out == quat_unaligned_write(ret[1], ptr, mem)
       IN /\ mem' = out.mem
          /\ asserted' = out.asserted
    /\ UNCHANGED <<backend, assertsOn, acosClamps, test, qa, qb, va, alpha, fin, inbuf, ptr, ret>>

NextMemory == Load \/ GetX \/ GetY \/ GetZ \/ GetW \/ VectorToQuat \/ UnalignedWrite

SpecMemory == InitMemory /\ [][NextMemory]_vars

--------------------------------------------------------------------------
(* Scenario "cast": a single precision quaternion is cast to double        *)
(* precision, and a double precision vector to single precision.           *)

InitCast ==
    /\ backend \in Backends
    /\ test = "cast"
    /\ fin \in {SetF(DoubleToFloat(t[1]), DoubleToFloat(t[2]), DoubleToFloat(t[3]), DoubleToFloat(t[4])) :
                    t \in Tuples4(CastLanes)}
    /\ va \in {VectorOf(TestSrc), VectorOf(<<Rat(1, 3), Num(-1), Zero, Rat(5, 2)>>)}
    /\ Idle({"fin", "va"})

QuatCast == Call("cast", 1, quat_cast(fin)) /\ UNCHANGED <<mem, asserted>>

VectorCast == Call("cast", 2, vector_cast(va)) /\ UNCHANGED <<mem, asserted>>

NextCast == QuatCast \/ VectorCast

SpecCast == InitCast /\ [][NextCast]_vars

--------------------------------------------------------------------------
(* Scenario "identity": a quaternion is multiplied by the identity on each *)
(* side and by its conjugate.                                              *)

InitIdentity ==
    /\ backend \in Backends
    /\ test = "identity"
    /\ qa \in QuatArgs
    /\ Idle({"qa"})

MulIdentityRight == Call("identity", 1, quat_mul(qa, quat_identity_64)) /\ UNCHANGED <<mem, asserted>>

MulIdentityLeft == Call("identity", 2, quat_mul(quat_identity_64, qa)) /\ UNCHANGED <<mem, asserted>>

Conjugate == Call("identity", 3, quat_conjugate(qa)) /\ UNCHANGED <<mem, asserted>>

MulConjugate == Call("identity", 4, quat_mul(qa, ret[3])) /\ UNCHANGED <<mem, asserted>>

LengthSquared == Call("identity", 5, quat_length_squared(qa)) /\ UNCHANGED <<mem, asserted>>

NextIdentity == MulIdentityRight \/ MulIdentityLeft \/ Conjugate \/ MulConjugate \/ LengthSquared

SpecIdentity == InitIdentity /\ [][NextIdentity]_vars

--------------------------------------------------------------------------
(* Scenario "rotate": a vector is rotated by a product, and by its two     *)
(* factors one after the other.                                            *)

InitRotate ==
    /\ backend \in Backends
    /\ test = "rotate"
    /\ qa \in QuatArgs
    /\ qb \in SecondArgs
    /\ va \in VectorArgs
    /\ Idle({"qa", "qb", "va"})

MulAB == Call("rotate", 1, quat_mul(qa, qb)) /\ UNCHANGED <<mem, asserted>>

RotateByProduct == Call("rotate", 2, quat_rotate(ret[1], va)) /\ UNCHANGED <<mem, asserted>>

RotateByA == Call("rotate", 3, quat_rotate(qa, va)) /\ UNCHANGED <<mem, asserted>>

RotateByB == Call("rotate", 4, quat_rotate(qb, ret[3])) /\ UNCHANGED <<mem, asserted>>

NextRotate == MulAB \/ RotateByProduct \/ RotateByA \/ RotateByB

SpecRotate == InitRotate /\ [][NextRotate]_vars

--------------------------------------------------------------------------
(* Scenario "sign": the sign of a quaternion is made canonical twice, and  *)
(* the quaternion is interpolated towards its negation.                    *)

InitSign ==
    /\ backend \in Backends
    /\ test = "sign"
    /\ qa \in QuatArgs
    /\ alpha \in Alphas
    /\ Idle({"qa", "alpha"})

EnsureOnce == Call("sign", 1, quat_ensure_positive_w(qa)) /\ UNCHANGED <<mem, asserted>>

EnsureTwice == Call("sign", 2, quat_ensure_positive_w(ret[1])) /\ UNCHANGED <<mem, asserted>>

Negate == Call("sign", 3, quat_neg(qa)) /\ UNCHANGED <<mem, asserted>>

Lerp == Call("sign", 4, quat_lerp(qa, ret[3], alpha)) /\ UNCHANGED <<mem, asserted>>

NextSign == EnsureOnce \/ EnsureTwice \/ Negate \/ Lerp

SpecSign == InitSign /\ [][NextSign]_vars

--------------------------------------------------------------------------
(* Scenario "axis": w is rebuilt from x, y and z, and the axis and the     *)
(* angle of a quaternion are read in the two ways the library offers.      *)

InitAxis ==
    /\ backend \in Backends
    /\ acosClamps \in BOOLEAN
    /\ test = "axis"
    /\ \E x \in AxisXYZ, y \in AxisXYZ, z \in AxisXYZ, w \in AxisW :
           /\ va = vector_set(x, y, z, w)
           /\ qa = quat_set(x, y, z, w)
    /\ Idle({"acosClamps", "qa", "va"})

FromPositiveW == Call("axis", 1, quat_from_positive_w(va)) /\ UNCHANGED <<mem, asserted>>

ToAxisAngle == Call("axis", 2, quat_to_axis_angle(qa)) /\ UNCHANGED <<mem, asserted>>

GetAxis == Call("axis", 3, quat_get_axis(qa)) /\ UNCHANGED <<mem, asserted>>

GetAngle == Call("axis", 4, quat_get_angle(qa)) /\ UNCHANGED <<mem, asserted>>

NextAxis == FromPositiveW \/ ToAxisAngle \/ GetAxis \/ GetAngle

SpecAxis == InitAxis /\ [][NextAxis]_vars

--------------------------------------------------------------------------
(* The claims. *)

\* quat_get_x .. quat_get_w of a quaternion, x first.
QuatLanes(q) == <<quat_get_x(q), quat_get_y(q), quat_get_z(q), quat_get_w(q)>>

AllLanesNonZero(q) == \A i \in 1..4 : QuatLanes(q)[i] # Zero

\* C1: quat_mul(q, quat_identity_64()) and quat_mul(quat_identity_64(), q)
\* both equal q, lane for lane.
C1_IdentityIsNeutral ==
    (test = "identity" /\ pc >= 2) =>
        /\ QuatLanes(ret[1]) = QuatLanes(qa)
        /\ QuatLanes(ret[2]) = QuatLanes(qa)

\* Both products of a quaternion of four non-zero lanes have been taken.
C1_Witness ==
    /\ test = "identity" /\ pc >= 2
    /\ AllLanesNonZero(qa)
    /\ quat_get_x(qa) # quat_get_y(qa)
    /\ ret[1] = qa /\ ret[2] = qa

\* C2: rotating v by quat_mul(a, b) is rotating v by a and the result by b,
\* and quat_rotate(r, v) is conjugate(r) * (v.x, v.y, v.z, 0) * r in the
\* order of quat_mul.
C2_RotateFollowsMulOrder ==
    (test = "rotate" /\ pc = 4) =>
        /\ ret[2] = ret[4]
        /\ ret[3] = quat_to_vector(
                        quat_mul(quat_mul(quat_conjugate(qa),
                                          quat_set(vector_get_x(va), vector_get_y(va), vector_get_z(va), Zero)),
                                 qa))

\* Two quaternions that do not commute have rotated a vector both ways, and
\* the rotation moved the vector.
C2_Witness ==
    /\ test = "rotate" /\ pc = 4
    /\ quat_mul(qa, qb) # quat_mul(qb, qa)
    /\ <<vector_get_x(ret[4]), vector_get_y(ret[4]), vector_get_z(ret[4])>>
           # <<vector_get_x(va), vector_get_y(va), vector_get_z(va)>>
    /\ ret[2] = ret[4]

\* C3: quat_mul(q, quat_conjugate(q)) has x = y = z = 0 and
\* w = quat_length_squared(q); for a q of length 1 it is the identity.
C3_ConjugateIsInverse ==
    (test = "identity" /\ pc = 5) =>
        /\ QuatLanes(ret[4]) = <<Zero, Zero, Zero, ret[5]>>
        /\ ret[5] = One => ret[4] = quat_identity_64

\* A unit quaternion of four non-zero lanes has been multiplied by its conjugate.
C3_Witness ==
    /\ test = "identity" /\ pc = 5
    /\ AllLanesNonZero(qa)
    /\ ret[5] = One
    /\ ret[4] = quat_identity_64

\* C4: quat_ensure_positive_w applied twice gives what it gives applied
\* once: q when w >= 0 and quat_neg(q) otherwise, of a w >= 0.
C4_EnsurePositiveWIdempotent ==
    (test = "sign" /\ pc >= 2) =>
        /\ ret[2] = ret[1]
        /\ ret[1] = IF GreaterEq(quat_get_w(qa), Zero) THEN qa ELSE quat_neg(qa)
        /\ GreaterEq(quat_get_w(ret[1]), Zero)

\* A quaternion of negative w has been negated by the first call.
C4_Witness ==
    /\ test = "sign" /\ pc >= 2
    /\ Less(quat_get_w(qa), Zero)
    /\ quat_get_x(qa) # Zero
    /\ ret[1] # qa
    /\ ret[2] = ret[1]

\* C5: whatever the address in the output pointer, quat_unaligned_write
\* fails no assertion and stores x, y, z, w at output[0] .. output[3].
C5_WriteNeedsNoAlignment ==
    (test = "memory" /\ pc = 7) => (~asserted /\ mem = inbuf)

\* C6: quat_get_x .. quat_get_w of quat_set(x, y, z, w) are x, y, z, w, with
\* the two registers xy and zw of SSE2 and with the four fields of the other
\* backends, and vector_to_quat keeps the lanes in their order.
C6_AccessorsReturnLogicalLanes ==
    (test = "memory" /\ pc >= 6) =>
        /\ <<ret[2], ret[3], ret[4], ret[5]>> = inbuf
        /\ QuatLanes(ret[6]) = inbuf
        /\ backend = "sse2" =>
               (ret[1].xy = <<inbuf[1], inbuf[2]>> /\ ret[1].zw = <<inbuf[3], inbuf[4]>>)
        /\ backend # "sse2" =>
               ret[1] = [x |-> inbuf[1], y |-> inbuf[2], z |-> inbuf[3], w |-> inbuf[4]]

\* With SSE2, the four lanes of a quaternion whose neighbouring lanes differ
\* have been read.
C6_Witness ==
    /\ test = "memory" /\ pc >= 6
    /\ backend = "sse2"
    /\ inbuf[1] # inbuf[2] /\ inbuf[3] # inbuf[4] /\ inbuf[1] # inbuf[3]
    /\ <<ret[2], ret[3], ret[4], ret[5]>> = inbuf

\* The threshold 1.0e-6 of test_vector4_64.cpp.
TestThreshold == Rat(1, 1000000)

\* C7: lane i of quat_cast(q) is lane i of q as a double, on the SSE2, the
\* NEON and the scalar path alike; lane i of vector_cast(v) is lane i of v
\* rounded to float, and for the vector of the test it is within 1e-6 of
\* the float literal.  No lane is rescaled.
C7_CastKeepsLanes ==
    /\ (test = "cast" /\ pc >= 1) =>
           QuatLanes(ret[1]) = <<FloatToDouble(LanesF(fin)[1]), FloatToDouble(LanesF(fin)[2]),
                                 FloatToDouble(LanesF(fin)[3]), FloatToDouble(LanesF(fin)[4])>>
    /\ (test = "cast" /\ pc >= 2) =>
           /\ \A i \in 1..4 : LanesF(ret[2])[i] = DoubleToFloat(Lanes(va)[i])
           /\ Lanes(va) = TestSrc =>
                  \A i \in 1..4 :
                      scalar_near_equal(LanesF(ret[2])[i], DoubleToFloat(TestSrc[i]),
                                        TestThreshold)

\* With SSE2, a quaternion whose low and high lanes differ has been cast to
\* double, and the vector of the test to float.
C7_Witness ==
    /\ test = "cast" /\ pc = 2
    /\ backend = "sse2"
    /\ LanesF(fin)[1] # LanesF(fin)[3] /\ LanesF(fin)[2] # LanesF(fin)[4]
    /\ LanesF(fin)[1] = DoubleToFloat(Rat(1, 3))
    /\ Lanes(va) = TestSrc
    /\ quat_get_z(ret[1]) = FloatToDouble(LanesF(fin)[3])

\* C8: for a q of length 1 and every alpha, quat_lerp(q, quat_neg(q), alpha)
\* is q.
C8_LerpShortestPath ==
    (test = "sign" /\ pc = 4 /\ quat_length_squared(qa) = One) => ret[4] = qa

\* A unit quaternion of four non-zero lanes has been interpolated half way
\* to its negation.
C8_Witness ==
    /\ test = "sign" /\ pc = 4
    /\ quat_length_squared(qa) = One
    /\ AllLanesNonZero(qa)
    /\ alpha = Rat(1, 2)
    /\ ret[3] = quat_neg(qa) /\ ret[3] # qa
    /\ ret[4] = qa

\* C9: quat_from_positive_w keeps x, y and z, returns a w >= 0, and returns
\* a quaternion of length 1, also when w_squared is negative.  (The length
\* is asked for only where the square root came out exactly.)
C9_FromPositiveWIsNormalized ==
    (test = "axis" /\ pc >= 1) =>
        LET q == ret[1]
            w == quat_get_w(q)
            w_squared == Sub(Sub(Sub(One, Mul(vector_get_x(va), vector_get_x(va))),
                                     Mul(vector_get_y(va), vector_get_y(va))),
                                 Mul(vector_get_z(va), vector_get_z(va)))
        IN /\ quat_get_x(q) = vector_get_x(va)
           /\ quat_get_y(q) = vector_get_y(va)
           /\ quat_get_z(q) = vector_get_z(va)
           /\ GreaterEq(w, Zero)
           /\ Mul(w, w) = scalar_abs(w_squared) => quat_length_squared(q) = One

\* The axis the claim states: (x, y, z) / sqrt(1 - w * w) when 1 - w * w is
\* at least epsilon squared, the x axis otherwise.
C10_ExpectedAxis(q) ==
    LET d == Sub(One, Mul(quat_get_w(q), quat_get_w(q)))
        s == scalar_sqrt(d)
    IN IF GeEpsilonSquared(d)
       THEN vector_set(Div(quat_get_x(q), s), Div(quat_get_y(q), s), Div(quat_get_z(q), s), Zero)
       ELSE vector_set(One, Zero, Zero, Zero)

\* C10: quat_to_axis_angle and quat_get_axis return the same axis, the axis
\* the claim states, and quat_to_axis_angle returns the angle of
\* quat_get_angle.
C10_AxisAngleAgree ==
    (test = "axis" /\ pc = 4) =>
        /\ ret[2].out_axis = ret[3]
        /\ ret[2].out_angle = ret[4]
        /\ ret[3] = C10_ExpectedAxis(qa)

\* The axis of a quaternion with 0 < |w| < 1 has been read both ways, and it
\* is not the x axis.
C10_Witness ==
    /\ test = "axis" /\ pc = 4
    /\ quat_get_w(qa) = Rat(3, 5)
    /\ quat_get_y(qa) = Rat(4, 5)
    /\ ret[3] = vector_set(Div(quat_get_x(qa), Rat(4, 5)), One, Div(quat_get_z(qa), Rat(4, 5)), Zero)
    /\ ret[2].out_axis = ret[3]

==========================================================================
